---- MODULE Spec2Model ----
(***************************************************************************)
(* Surface lifecycle of surfman's Android backend                          *)
(* (surfman/src/platform/android/surface.rs).                              *)
(*                                                                         *)
(* The state is what the Device's operations read and write: the Surface   *)
(* and SurfaceTexture values the caller owns, the native objects that are  *)
(* alive in the EGL display and in each GL context, the context that is    *)
(* current on the thread, and whether the thread has panicked.             *)
(*                                                                         *)
(* GL object names (textures, framebuffers, renderbuffers) live in the     *)
(* namespace of one context and every GL call acts on the context that is  *)
(* current when it is issued.  Hardware buffers, EGL images and EGL        *)
(* surfaces belong to the display and are reachable from every context.    *)
(***************************************************************************)
EXTENDS Integers, Sequences, FiniteSets, TLC

VARIABLES
    slots,     \* the Surface / SurfaceTexture values the caller owns
    live,      \* the native objects that exist: <<kind, namespace, handle>>
    current,   \* the context current on the thread, or NoCtx
    fault,     \* "none", or the panic that unwinds the thread
    lastOp,    \* the last Device call: arguments, result, native calls made
    trip,      \* per slot: how far the value is through the round trip
    calls      \* the number of Device calls made so far

vars == <<slots, live, current, fault, lastOp, trip, calls>>

----------------------------------------------------------------------------
(* Bounds of the model. *)

MaxHandle == 3
MaxCalls == 4

\* Two contexts, and two places where the caller keeps a value.
Ctx == {1, 2}
Slots == {1, 2}
Handles == 1..MaxHandle
Sizes == {<<64, 64>>, <<800, 600>>}

----------------------------------------------------------------------------
(* Null handles and namespaces. *)

NoCtx == 0
Display == 0
EGL_NO_IMAGE_KHR == 0
NO_SURFACE == 0
NullPtr == 0

Obj(kind, ns, h) == <<kind, ns, h>>

Ev(name, arg, cur) == <<name, arg, cur>>

\* EGL images and EGL surfaces are pointers to objects of the display, so
\* no two live EGL objects share a handle; GL names are per kind and context.
Pool(kind) == IF kind \in {"egl_image", "egl_surface"}
              THEN {"egl_image", "egl_surface"} ELSE {kind}

\* The handles of a kind that name no live object in a namespace.
Free(liveSet, kind, ns) ==
    {h \in Handles : \A p \in Pool(kind) : Obj(p, ns, h) \notin liveSet}

\* The handle a binding returns for a new object: the lowest free one.
Fresh(liveSet, kind, ns) ==
    LET f == Free(liveSet, kind, ns)
    IN  {h \in f : \A g \in f : h <= g}

\* glDelete*: acts on the current context's namespace; names that do not
\* exist there are ignored, and so is the call when no context is current.
GlDelete(liveSet, cur, kind, h) ==
    IF cur = NoCtx THEN liveSet ELSE liveSet \ {Obj(kind, cur, h)}

\* glGen* / glBind*: the new object is made in the current context.
GlGen(liveSet, cur, kind, h) ==
    IF cur = NoCtx THEN liveSet ELSE liveSet \cup {Obj(kind, cur, h)}

----------------------------------------------------------------------------
(* Values. *)

HardwareBufferObjects(hb, img, fb, tex, rb) ==
    [variant |-> "HardwareBuffer", hardware_buffer |-> hb, egl_image |-> img,
     framebuffer_object |-> fb, texture_object |-> tex, renderbuffers |-> rb]

WindowObjects(es) == [variant |-> "Window", egl_surface |-> es]

Surface(ctxId, size, objects, destroyed) ==
    [context_id |-> ctxId, size |-> size, objects |-> objects,
     destroyed |-> destroyed]

SurfaceTexture(surface, img, tex) ==
    [surface |-> surface, local_egl_image |-> img, texture_object |-> tex]

Empty == [tag |-> "empty"]
HoldSurface(s) == [tag |-> "surface", surface |-> s]
\* `made_in` is the context the texture was made in; SurfaceTexture itself
\* keeps no record of it.
HoldTexture(t, c) == [tag |-> "texture", texture |-> t, made_in |-> c]

\* Variant: an off-screen Surface is identified by its framebuffer name.
id_from_framebuffer(s) ==
    IF s.objects.variant = "HardwareBuffer"
    THEN s.objects.framebuffer_object
    ELSE s.objects.egl_surface

\* Surface::id
id(s) ==
    IF s.objects.variant = "HardwareBuffer"
    THEN s.objects.egl_image
    ELSE s.objects.egl_surface

\* impl Drop for Surface: the panic raised, if any.
Drop(s, panicking) ==
    IF ~s.destroyed /\ ~panicking THEN "should_have_destroyed" ELSE "none"

\* Context guard: temporarily_make_context_current.  The context that is
\* current while the guard lives; when acquisition fails nothing changes.
GuardCurrent(cur, ctx, ok) == IF ok THEN ctx ELSE cur

----------------------------------------------------------------------------
(* What one Device call produced: its result, the value handed back to the *)
(* caller, the Surface values that went out of scope inside the call, the  *)
(* native objects alive afterwards, the native calls and field writes in   *)
(* program order, the panic raised and the context current on return.      *)

Outcome(result, value, dropped, liveSet, events, panic, cur) ==
    [result |-> result, value |-> value, dropped |-> dropped, live |-> liveSet,
     events |-> events, fault |-> panic, current |-> cur]

\* Device::create_egl_image; `img` is the handle CreateImageKHR returned.
create_egl_image(liveSet, img) ==
    IF img = EGL_NO_IMAGE_KHR THEN liveSet
    ELSE liveSet \cup {Obj("egl_image", Display, img)}

\* Variant: the result of the allocation is examined only after the texture
\* has been generated.
allocation_failed_after_texture(liveSet, c, cur, h) ==
    Outcome("SurfaceCreationFailed", Empty, <<>>,
            GlGen(liveSet, c, "texture", h.texture_object),
            <<Ev("AHardwareBuffer_allocate", NullPtr, c)>>, "none", cur)

\* create_generic_surface when AHardwareBuffer_allocate reports failure.
allocation_failed(liveSet, c, cur, h) ==
    Outcome("SurfaceCreationFailed", Empty, <<>>, liveSet,
            <<Ev("AHardwareBuffer_allocate", NullPtr, c)>>, "none", cur)

\* Device::create_generic_surface.  `allocResult` is what
\* AHardwareBuffer_allocate returned and `h` the handles the bindings chose.
create_generic_surface(liveSet, cur, context, size, mcOk, allocResult, h) ==
    LET c == GuardCurrent(cur, context, mcOk)
        l1 == liveSet \cup {Obj("hardware_buffer", Display, h.hardware_buffer)}
        l2 == create_egl_image(l1, h.egl_image)
        l3 == GlGen(l2, c, "texture", h.texture_object)
        l4 == GlGen(l3, c, "framebuffer", h.framebuffer_object)
        l5 == GlGen(l4, c, "renderbuffer", h.renderbuffers)
        e1 == <<Ev("AHardwareBuffer_allocate", h.hardware_buffer, c)>>
        e2 == Append(e1, Ev("CreateImageKHR", h.egl_image, c))
        e5 == e2 \o <<Ev("bind_egl_image_to_gl_texture", h.texture_object, c),
                      Ev("create_and_bind_framebuffer", h.framebuffer_object, c),
                      Ev("Renderbuffers::new", h.renderbuffers, c)>>
    IN  IF ~mcOk
        THEN Outcome("MakeCurrentFailed", Empty, <<>>, liveSet, <<>>, "none", cur)
        ELSE IF allocResult # 0
        THEN allocation_failed(liveSet, c, cur, h)
        ELSE IF h.egl_image = EGL_NO_IMAGE_KHR
        THEN Outcome("panic", Empty, <<>>, l1, e2, "assertion", cur)
        ELSE Outcome("Ok",
                     HoldSurface(Surface(context, size,
                         HardwareBufferObjects(h.hardware_buffer, h.egl_image,
                                               h.framebuffer_object,
                                               h.texture_object, h.renderbuffers),
                         FALSE)),
                     <<>>, l5, e5, "none", cur)

\* Variant: width and height are stored the wrong way round.
create_window_surface_transposed(liveSet, cur, context, win, es) ==
    Outcome("Ok",
            HoldSurface(Surface(context, <<win[2], win[1]>>,
                                WindowObjects(es), FALSE)),
            <<>>, liveSet \cup {Obj("egl_surface", Display, es)},
            <<Ev("CreateWindowSurface", es, cur)>>, "none", cur)

\* Device::create_window_surface.  `win` is the size the native window
\* reports and `es` the handle CreateWindowSurface returned.
create_window_surface(liveSet, cur, context, win, es) ==
    LET e1 == <<Ev("ANativeWindow_getWidth", win[1], cur),
                Ev("ANativeWindow_getHeight", win[2], cur),
                Ev("CreateWindowSurface", es, cur)>>
    IN  IF es = NO_SURFACE
        THEN Outcome("panic", Empty, <<>>, liveSet, e1, "assertion", cur)
        ELSE Outcome("Ok",
                     HoldSurface(Surface(context, <<win[1], win[2]>>,
                                         WindowObjects(es), FALSE)),
                     <<>>, liveSet \cup {Obj("egl_surface", Display, es)},
                     e1, "none", cur)

\* Device::create_surface_texture.  `surface` is taken by value: on every
\* path that does not move it into the SurfaceTexture it goes out of scope
\* inside the call.
create_surface_texture(liveSet, cur, context, surface, mcOk, img, tex) ==
    LET c  == GuardCurrent(cur, context, mcOk)
        l1 == create_egl_image(liveSet, img)
        l2 == GlGen(l1, c, "texture", tex)
        e1 == <<Ev("CreateImageKHR", img, c)>>
        e2 == Append(e1, Ev("bind_egl_image_to_gl_texture", tex, c))
    IN  IF surface.objects.variant = "Window"
        THEN Outcome("WidgetAttached", Empty, <<surface>>, liveSet, <<>>,
                     Drop(surface, FALSE), cur)
        ELSE IF ~mcOk
        THEN Outcome("MakeCurrentFailed", Empty, <<surface>>, liveSet, <<>>,
                     Drop(surface, FALSE), cur)
        ELSE IF img = EGL_NO_IMAGE_KHR
        THEN Outcome("panic", Empty, <<surface>>, liveSet, e1, "assertion", cur)
        ELSE Outcome("Ok", HoldTexture(SurfaceTexture(surface, img, tex), c),
                     <<>>, l2, e2, "none", cur)

\* Variant: the buffer swap is issued without looking at the variant.
present_surface_any_variant(liveSet, cur, context, surface) ==
    Outcome("Ok", HoldSurface(surface), <<>>, liveSet,
            <<Ev("SwapBuffers", id(surface), cur)>>, "none", cur)

\* Device::present_surface / present_surface_without_context.
present_surface(liveSet, cur, context, surface) ==
    IF surface.objects.variant = "Window"
    THEN Outcome("Ok", HoldSurface(surface), <<>>, liveSet,
                 <<Ev("SwapBuffers", surface.objects.egl_surface, cur)>>,
                 "none", cur)
    ELSE Outcome("NoWidgetAttached", HoldSurface(surface), <<>>, liveSet,
                 <<>>, "none", cur)

\* Renderbuffers::destroy: deletes the set's renderbuffer in the current
\* context.
Renderbuffers_destroy(liveSet, cur, rb) == GlDelete(liveSet, cur, "renderbuffer", rb)

\* Variant: the flag is never set.
mark_destroyed_forgotten(s) == s

\* surface.destroyed = true
mark_destroyed(s) == [s EXCEPT !.destroyed = TRUE]

\* Variant: the hardware buffer is released although the context does not
\* own the surface.
leak_surface_releasing(liveSet, cur, surface) ==
    Outcome("IncompatibleSurface", Empty,
            <<[surface EXCEPT !.destroyed = TRUE]>>,
            liveSet \ {Obj("hardware_buffer", Display, h) : h \in Handles},
            <<Ev("destroyed:=", 1, cur)>>, "none", cur)

\* destroy_surface when the context does not own the surface: "Leak the
\* surface, and return an error."
leak_surface(liveSet, cur, surface) ==
    LET s1 == mark_destroyed(surface)
    IN  Outcome("IncompatibleSurface", Empty, <<s1>>, liveSet,
                <<Ev("destroyed:=", 1, cur)>>, Drop(s1, FALSE), cur)

\* Variant: the Renderbuffer Set is destroyed before the framebuffer.
HardwareBufferTeardown_renderbuffers_first ==
    <<"BindFramebuffer", "Renderbuffers::destroy", "DeleteFramebuffers",
      "framebuffer_object:=", "DeleteTextures", "texture_object:=",
      "DestroyImageKHR", "egl_image:=", "AHardwareBuffer_release",
      "hardware_buffer:=">>

\* Variant: the Renderbuffer Set is destroyed only after the texture.
HardwareBufferTeardown_renderbuffers_last ==
    <<"BindFramebuffer", "DeleteFramebuffers", "framebuffer_object:=",
      "DeleteTextures", "texture_object:=", "Renderbuffers::destroy",
      "DestroyImageKHR", "egl_image:=", "AHardwareBuffer_release",
      "hardware_buffer:=">>

\* The statements of destroy_surface for the HardwareBuffer variant, in
\* program order.
HardwareBufferTeardown ==
    <<"BindFramebuffer", "DeleteFramebuffers", "framebuffer_object:=",
      "Renderbuffers::destroy", "DeleteTextures", "texture_object:=",
      "DestroyImageKHR", "egl_image:=", "AHardwareBuffer_release",
      "hardware_buffer:=">>

\* The statements of destroy_surface for the Window variant.
WindowTeardown == <<"DestroySurface", "egl_surface:=">>

\* One statement of the teardown, run on st = [live, s, events, ok] with
\* context `cur` current.
TeardownStep(st, stmt, cur) ==
    LET o == st.s.objects
        log(arg) == Append(st.events, Ev(stmt, arg, cur))
    IN  CASE stmt = "BindFramebuffer" ->
               [st EXCEPT !.events = log(0)]
          [] stmt = "DeleteFramebuffers" ->
               [st EXCEPT !.live = GlDelete(st.live, cur, "framebuffer",
                                            o.framebuffer_object),
                          !.events = log(o.framebuffer_object)]
          [] stmt = "framebuffer_object:=" ->
               [st EXCEPT !.s.objects.framebuffer_object = 0,
                          !.events = log(0)]
          [] stmt = "Renderbuffers::destroy" ->
               [st EXCEPT !.live = Renderbuffers_destroy(st.live, cur,
                                                         o.renderbuffers),
                          !.s.objects.renderbuffers = 0,
                          !.events = log(o.renderbuffers)]
          [] stmt = "DeleteTextures" ->
               [st EXCEPT !.live = GlDelete(st.live, cur, "texture",
                                            o.texture_object),
                          !.events = log(o.texture_object)]
          [] stmt = "texture_object:=" ->
               [st EXCEPT !.s.objects.texture_object = 0, !.events = log(0)]
          [] stmt = "DestroyImageKHR" ->
               [st EXCEPT !.live = @ \ {Obj("egl_image", Display, o.egl_image)},
                          !.ok = Obj("egl_image", Display, o.egl_image) \in st.live,
                          !.events = log(o.egl_image)]
          [] stmt = "egl_image:=" ->
               [st EXCEPT !.s.objects.egl_image = EGL_NO_IMAGE_KHR,
                          !.events = log(EGL_NO_IMAGE_KHR)]
          [] stmt = "AHardwareBuffer_release" ->
               [st EXCEPT !.live = @ \ {Obj("hardware_buffer", Display,
                                            o.hardware_buffer)},
                          !.events = log(o.hardware_buffer)]
          [] stmt = "hardware_buffer:=" ->
               [st EXCEPT !.s.objects.hardware_buffer = NullPtr,
                          !.events = log(NullPtr)]
          [] stmt = "DestroySurface" ->
               [st EXCEPT !.live = @ \ {Obj("egl_surface", Display,
                                            o.egl_surface)},
                          !.events = log(o.egl_surface)]
          [] stmt = "egl_surface:=" ->
               [st EXCEPT !.s.objects.egl_surface = NO_SURFACE,
                          !.events = log(NO_SURFACE)]

\* The statements in order; a failed assertion ends the run.
RECURSIVE RunTeardown(_, _, _)
RunTeardown(st, stmts, cur) ==
    IF stmts = <<>> \/ ~st.ok THEN st
    ELSE RunTeardown(TeardownStep(st, Head(stmts), cur), Tail(stmts), cur)

\* destroy_surface when the context owns the surface.
teardown_surface(liveSet, cur, surface) ==
    LET stmts == IF surface.objects.variant = "HardwareBuffer"
                 THEN HardwareBufferTeardown ELSE WindowTeardown
        st == RunTeardown([live |-> liveSet, s |-> surface, events |-> <<>>,
                           ok |-> TRUE], stmts, cur)
        s1 == mark_destroyed(st.s)
    IN  IF ~st.ok
        THEN Outcome("panic", Empty, <<st.s>>, st.live, st.events,
                     "assertion", cur)
        ELSE Outcome("Ok", Empty, <<s1>>, st.live,
                     Append(st.events, Ev("destroyed:=", 1, cur)),
                     Drop(s1, FALSE), cur)

\* Variant: the owner is not compared with the context.
destroy_surface_unchecked(liveSet, cur, context, surface) ==
    teardown_surface(liveSet, cur, surface)

\* Device::destroy_surface.  `surface` is taken by value and goes out of
\* scope inside the call on every path.
destroy_surface(liveSet, cur, context, surface) ==
    IF context # surface.context_id
    THEN leak_surface(liveSet, cur, surface)
    ELSE teardown_surface(liveSet, cur, surface)

\* Variant: the context made current for the call stays current afterwards.
destroy_surface_texture_unguarded(liveSet, cur, context, st, mcOk) ==
    LET c  == GuardCurrent(cur, context, mcOk)
        l1 == GlDelete(liveSet, c, "texture", st.texture_object)
        imageDestroyed == Obj("egl_image", Display, st.local_egl_image) \in l1
        l2 == l1 \ {Obj("egl_image", Display, st.local_egl_image)}
        e2 == <<Ev("DeleteTextures", st.texture_object, c),
                Ev("texture_object:=", 0, c),
                Ev("DestroyImageKHR", st.local_egl_image, c)>>
        e3 == Append(e2, Ev("local_egl_image:=", EGL_NO_IMAGE_KHR, c))
    IN  IF ~imageDestroyed
        THEN Outcome("panic", Empty, <<st.surface>>, l1, e2, "assertion", c)
        ELSE Outcome("Ok", HoldSurface(st.surface), <<>>, l2, e3, "none", c)

\* Device::destroy_surface_texture.  The result of making the context
\* current is bound to the guard and never examined.
destroy_surface_texture(liveSet, cur, context, st, mcOk) ==
    LET c  == GuardCurrent(cur, context, mcOk)
        l1 == GlDelete(liveSet, c, "texture", st.texture_object)
        imageDestroyed == Obj("egl_image", Display, st.local_egl_image) \in l1
        l2 == l1 \ {Obj("egl_image", Display, st.local_egl_image)}
        e2 == <<Ev("DeleteTextures", st.texture_object, c),
                Ev("texture_object:=", 0, c),
                Ev("DestroyImageKHR", st.local_egl_image, c)>>
        e3 == Append(e2, Ev("local_egl_image:=", EGL_NO_IMAGE_KHR, c))
    IN  IF ~imageDestroyed
        THEN Outcome("panic", Empty, <<st.surface>>, l1, e2, "assertion", cur)
        ELSE Outcome("Ok", HoldSurface(st.surface), <<>>, l2, e3, "none", cur)

----------------------------------------------------------------------------
(* The round trip a slot's value is on: 1 after create_surface(Generic) on *)
(* context a, 2 after create_surface_texture on context b, 3 after         *)
(* destroy_surface_texture on b, 4 after a successful destroy_surface on   *)
(* a; 0 when the value has left that path.  `made` collects the native     *)
(* objects created for the value along the way.                            *)

NoTrip == [step |-> 0, a |-> NoCtx, b |-> NoCtx, made |-> {}]

\* `arg` is what the caller asked for: the size of create_surface(Generic),
\* or the size the native window reported to create_surface(Widget).
\* `env` is what the platform answered: whether the context could be made
\* current and what AHardwareBuffer_allocate returned.
Call(op, context, k, arg, env, out) ==
    [op |-> op, ctx |-> context, slot |-> k, arg |-> arg, env |-> env,
     pre |-> slots[k], cur0 |-> current, live0 |-> live, out |-> out]

Env(mcOk, allocResult) == [mcOk |-> mcOk, alloc |-> allocResult]
NoEnv == Env(TRUE, 0)

\* The caller takes what the call hands back.  A panic unwinds the thread:
\* every value the caller holds goes out of scope while the thread is
\* panicking, so none of them panics again.
Apply(op, context, k, arg, env, out, t) ==
    /\ calls < MaxCalls
    /\ calls' = calls + 1
    /\ slots' = IF out.fault = "none"
                THEN [slots EXCEPT ![k] = out.value]
                ELSE [j \in Slots |-> Empty]
    /\ live' = out.live
    /\ current' = out.current
    /\ fault' = out.fault
    /\ lastOp' = Call(op, context, k, arg, env, out)
    /\ trip' = IF out.fault = "none"
               THEN [trip EXCEPT ![k] = t]
               ELSE [j \in Slots |-> NoTrip]

\* The caller keeps a new value in its first unused slot.
Unused(k) == slots[k] = Empty /\ \A j \in Slots : j < k => slots[j] # Empty

Init ==
    /\ slots = [k \in Slots |-> Empty]
    /\ live = {}
    /\ current = NoCtx
    /\ fault = "none"
    /\ lastOp = [op |-> "init", ctx |-> NoCtx, slot |-> 0, arg |-> <<>>,
                 env |-> NoEnv, pre |-> Empty, cur0 |-> current, live0 |-> {},
                 out |-> Outcome("Ok", Empty, <<>>, {}, <<>>, "none", current)]
    /\ trip = [k \in Slots |-> NoTrip]
    /\ calls = 0

CreateGenericSurface(context, k, size) ==
    /\ fault = "none"
    /\ Unused(k)
    /\ \E mcOk \in BOOLEAN, allocResult \in {0, 1},
          hb \in Fresh(live, "hardware_buffer", Display),
          img \in Fresh(live, "egl_image", Display) \cup {EGL_NO_IMAGE_KHR},
          tex \in Fresh(live, "texture", context),
          fb \in Fresh(live, "framebuffer", context),
          rb \in Fresh(live, "renderbuffer", context) :
          LET h == [hardware_buffer |-> hb, egl_image |-> img,
                    texture_object |-> tex, framebuffer_object |-> fb,
                    renderbuffers |-> rb]
              out == create_generic_surface(live, current, context, size,
                                            mcOk, allocResult, h)
          IN  Apply("create_surface", context, k, <<"Generic", size>>,
                    Env(mcOk, allocResult), out,
                    IF out.result = "Ok"
                    THEN [step |-> 1, a |-> context, b |-> NoCtx,
                          made |-> out.live \ live]
                    ELSE NoTrip)

CreateWindowSurface(context, k, win) ==
    /\ fault = "none"
    /\ Unused(k)
    /\ \E es \in Fresh(live, "egl_surface", Display) \cup {NO_SURFACE} :
          Apply("create_surface", context, k, <<"Widget", win>>, NoEnv,
                create_window_surface(live, current, context, win, es),
                NoTrip)

CreateSurfaceTexture(context, k) ==
    /\ fault = "none"
    /\ slots[k].tag = "surface"
    /\ \E mcOk \in BOOLEAN,
          img \in Fresh(live, "egl_image", Display) \cup {EGL_NO_IMAGE_KHR},
          tex \in Fresh(live, "texture", context) :
          LET out == create_surface_texture(live, current, context,
                                            slots[k].surface, mcOk, img, tex)
          IN  Apply("create_surface_texture", context, k, <<>>, Env(mcOk, 0), out,
                    IF out.result = "Ok" /\ trip[k].step = 1
                    THEN [trip[k] EXCEPT !.step = 2, !.b = context,
                             !.made = @ \cup (out.live \ live)]
                    ELSE NoTrip)

PresentSurface(context, k) ==
    /\ fault = "none"
    /\ slots[k].tag = "surface"
    /\ Apply("present_surface", context, k, <<>>, NoEnv,
             present_surface(live, current, context, slots[k].surface),
             trip[k])

DestroySurface(context, k) ==
    /\ fault = "none"
    /\ slots[k].tag = "surface"
    /\ LET out == destroy_surface(live, current, context, slots[k].surface)
       IN  Apply("destroy_surface", context, k, <<>>, NoEnv, out,
                 IF out.result = "Ok" /\ trip[k].step = 3 /\ trip[k].a = context
                 THEN [trip[k] EXCEPT !.step = 4]
                 ELSE NoTrip)

DestroySurfaceTexture(context, k) ==
    /\ fault = "none"
    /\ slots[k].tag = "texture"
    /\ \E mcOk \in BOOLEAN :
          LET out == destroy_surface_texture(live, current, context,
                                             slots[k].texture, mcOk)
          IN  Apply("destroy_surface_texture", context, k, <<>>, Env(mcOk, 0),
                    out,
                    IF out.result = "Ok" /\ mcOk /\ trip[k].step = 2
                       /\ trip[k].b = context
                    THEN [trip[k] EXCEPT !.step = 3,
                                         !.made = @ \cap out.live]
                    ELSE NoTrip)

\* The Surface inside a held value.
Held(v) == IF v.tag = "surface" THEN v.surface ELSE v.texture.surface

\* The caller lets a value go out of scope.
DropValue(k) ==
    /\ fault = "none"
    /\ slots[k] # Empty
    /\ Apply("drop", NoCtx, k, <<>>, NoEnv,
             Outcome("Ok", Empty, <<Held(slots[k])>>, live, <<>>,
                     Drop(Held(slots[k]), FALSE), current),
             NoTrip)

\* The caller makes a context, or none, current on the thread.
MakeContextCurrent(c) ==
    /\ fault = "none"
    /\ c # current
    /\ current' = c
    /\ lastOp' = [op |-> "make_context_current", ctx |-> c, slot |-> 0,
                  arg |-> <<>>, env |-> NoEnv, pre |-> Empty, cur0 |-> current,
                  live0 |-> live,
                  out |-> Outcome("Ok", Empty, <<>>, live, <<>>, "none", c)]
    /\ UNCHANGED <<slots, live, fault, trip, calls>>

Next ==
    \/ \E c \in Ctx, k \in Slots, size \in Sizes : CreateGenericSurface(c, k, size)
    \/ \E c \in Ctx, k \in Slots, win \in Sizes : CreateWindowSurface(c, k, win)
    \/ \E c \in Ctx, k \in Slots : CreateSurfaceTexture(c, k)
    \/ \E c \in Ctx, k \in Slots : PresentSurface(c, k)
    \/ \E c \in Ctx, k \in Slots : DestroySurface(c, k)
    \/ \E c \in Ctx, k \in Slots : DestroySurfaceTexture(c, k)
    \/ \E k \in Slots : DropValue(k)
    \/ \E c \in Ctx \cup {NoCtx} : MakeContextCurrent(c)

Spec == Init /\ [][Next]_vars

----------------------------------------------------------------------------
(* Vocabulary of the properties. *)

\* The native objects a Surface owns.
SurfaceObjs(s) ==
    IF s.objects.variant = "HardwareBuffer"
    THEN {Obj("hardware_buffer", Display, s.objects.hardware_buffer),
          Obj("egl_image", Display, s.objects.egl_image),
          Obj("framebuffer", s.context_id, s.objects.framebuffer_object),
          Obj("texture", s.context_id, s.objects.texture_object),
          Obj("renderbuffer", s.context_id, s.objects.renderbuffers)}
    ELSE {Obj("egl_surface", Display, s.objects.egl_surface)}

\* The native objects a SurfaceTexture made in context c owns itself.
TextureObjs(t, c) ==
    {Obj("egl_image", Display, t.local_egl_image),
     Obj("texture", c, t.texture_object)}

EventNames(events) == [i \in DOMAIN events |-> events[i][1]]

NativeTeardownCalls ==
    {"BindFramebuffer", "DeleteFramebuffers", "Renderbuffers::destroy",
     "DeleteTextures", "DestroyImageKHR", "AHardwareBuffer_release",
     "DestroySurface"}

Did(op) == lastOp.op = op
Mismatch == Did("destroy_surface") /\ lastOp.ctx # lastOp.pre.surface.context_id
Returned == slots[lastOp.slot]

----------------------------------------------------------------------------
(* C1: create_surface_texture on a window-backed Surface returns           *)
(* Err(WidgetAttached) and hands the Surface back unconsumed: the Surface  *)
(* is not dropped inside the call, no "should have destroyed" panic is     *)
(* raised, the caller still holds it un-destroyed with its window-surface  *)
(* handle live, and no native object is created or released.               *)
C1_WidgetAttachedReturnsSurface ==
    (Did("create_surface_texture")
        /\ lastOp.pre.surface.objects.variant = "Window")
    => /\ lastOp.out.result = "WidgetAttached"
       /\ lastOp.out.dropped = <<>>
       /\ fault = "none"
       /\ Returned = lastOp.pre
       /\ ~Returned.surface.destroyed
       /\ SurfaceObjs(lastOp.pre.surface) \subseteq live
       /\ live = lastOp.live0

(* C2: destroy_surface with a context that does not own the Surface (either *)
(* variant) returns Err(IncompatibleSurface), makes no native teardown call, *)
(* leaves the set of live native objects unchanged, marks the Surface       *)
(* destroyed, and the drop that follows raises no panic.                    *)
C2_IncompatibleSurfaceNoTeardown ==
    Mismatch
    => /\ lastOp.out.result = "IncompatibleSurface"
       /\ \A i \in DOMAIN lastOp.out.events :
              lastOp.out.events[i][1] \notin NativeTeardownCalls
       /\ live = lastOp.live0
       /\ Len(lastOp.out.dropped) = 1
       /\ lastOp.out.dropped[1].destroyed
       /\ fault = "none"

C2_Witness ==
    /\ Mismatch
    /\ lastOp.pre.surface.objects.variant = "HardwareBuffer"
    /\ SurfaceObjs(lastOp.pre.surface) \subseteq live

(* C3: the round trip create_surface(Generic) on context a,                *)
(* create_surface_texture on b, destroy_surface_texture on b,              *)
(* destroy_surface on a, every step succeeding, leaks nothing: none of the *)
(* native objects made along the way is still alive after the last step,   *)
(* and every handle field of the Surface was nulled.                       *)
C3_RoundTripLeaksNothing ==
    \A k \in Slots :
        (Did("destroy_surface") /\ lastOp.slot = k /\ trip[k].step = 4)
        => /\ trip[k].made \cap live = {}
           /\ lastOp.out.dropped[1].objects =
                  HardwareBufferObjects(NullPtr, EGL_NO_IMAGE_KHR, 0, 0, 0)

(* C4: destroy_surface_texture releases the SurfaceTexture's own texture   *)
(* and image and nothing else, and returns the embedded Surface with the   *)
(* same id, context id and size, not destroyed, and with its own hardware  *)
(* buffer, image, framebuffer, texture and renderbuffers as alive as they  *)
(* were before the call.                                                   *)
C4_DestroyTextureReleasesOnlySecondPair ==
    (Did("destroy_surface_texture") /\ lastOp.out.result = "Ok")
    => LET t == lastOp.pre.texture
           c == lastOp.pre.made_in
       IN  /\ Returned = HoldSurface(t.surface)
           /\ ~Returned.surface.destroyed
           /\ lastOp.live0 \ live = TextureObjs(t, c) \cap lastOp.live0
           /\ TextureObjs(t, c) \cap live = {}
           /\ SurfaceObjs(t.surface) \cap lastOp.live0 \subseteq live

(* C5: a Surface dropped un-destroyed outside unwinding raises the "should *)
(* have destroyed" panic; a destroy_surface that succeeds marks the        *)
(* Surface destroyed before it goes out of scope, so the drop ending the   *)
(* call raises no panic, for either variant.                               *)
C5_DestroyBeforeDrop ==
    /\ (Did("drop") /\ ~Held(lastOp.pre).destroyed)
       => fault = "should_have_destroyed"
    /\ (Did("destroy_surface") /\ lastOp.out.result = "Ok")
       => /\ Len(lastOp.out.dropped) = 1
          /\ lastOp.out.dropped[1].destroyed
          /\ fault = "none"

C5_Witness ==
    /\ Did("destroy_surface")
    /\ lastOp.out.result = "Ok"
    /\ lastOp.pre.surface.objects.variant = "Window"
    /\ ~lastOp.pre.surface.destroyed

(* C6: present_surface on an off-screen Surface returns                    *)
(* Err(NoWidgetAttached), swaps no buffer and changes nothing; on a        *)
(* window-backed Surface it issues exactly one SwapBuffers on that         *)
(* Surface's window-surface handle and returns Ok, and the Surface is      *)
(* unchanged.                                                              *)
C6_PresentByVariant ==
    Did("present_surface")
    => /\ Returned = lastOp.pre
       /\ live = lastOp.live0
       /\ fault = "none"
       /\ IF lastOp.pre.surface.objects.variant = "HardwareBuffer"
          THEN /\ lastOp.out.result = "NoWidgetAttached"
               /\ lastOp.out.events = <<>>
          ELSE /\ lastOp.out.result = "Ok"
               /\ Len(lastOp.out.events) = 1
               /\ lastOp.out.events[1][1] = "SwapBuffers"
               /\ lastOp.out.events[1][2] = lastOp.pre.surface.objects.egl_surface

C6_Witness ==
    /\ Did("present_surface")
    /\ lastOp.pre.surface.objects.variant = "Window"
    /\ lastOp.out.result = "Ok"

(* C7: a Surface returned by create_surface has the variant the selector   *)
(* chose, destroyed = false, the supplied context's id, and the requested  *)
(* size (Generic) or the size the native window reported (Widget); and no  *)
(* operation ever changes the size of a Surface the caller holds.          *)
C7_CreatedAsRequested ==
    (Did("create_surface") /\ lastOp.out.result = "Ok")
    => /\ Returned.tag = "surface"
       /\ Returned.surface.objects.variant =
              (IF lastOp.arg[1] = "Generic" THEN "HardwareBuffer" ELSE "Window")
       /\ ~Returned.surface.destroyed
       /\ Returned.surface.context_id = lastOp.ctx
       /\ Returned.surface.size = lastOp.arg[2]

C7_SizeKept ==
    \A k \in Slots :
        (slots[k] # Empty /\ slots'[k] # Empty)
        => Held(slots'[k]).size = Held(slots[k]).size

\* C7: every created Surface is as requested, and every step keeps the size
\* of every Surface the caller holds.
C7_SizeAsCreated == [](C7_CreatedAsRequested) /\ [][C7_SizeKept]_vars

C7_Witness ==
    /\ Did("create_surface")
    /\ lastOp.out.result = "Ok"
    /\ lastOp.arg = <<"Widget", <<800, 600>>>>
    /\ Returned.surface.size = <<800, 600>>
    /\ \E k \in Slots : /\ k # lastOp.slot
                        /\ slots[k].tag = "texture"
                        /\ Held(slots[k]).size = <<64, 64>>

(* C8: when AHardwareBuffer_allocate fails, create_surface(Generic)        *)
(* returns Err(SurfaceCreationFailed), hands back no Surface and has made  *)
(* no native object: the live set is what it was before the call.          *)
C8_AllocationFailureMakesNothing ==
    (Did("create_surface") /\ lastOp.arg[1] = "Generic"
        /\ lastOp.env.mcOk /\ lastOp.env.alloc # 0)
    => /\ lastOp.out.result = "SurfaceCreationFailed"
       /\ Returned = Empty
       /\ live = lastOp.live0
       /\ fault = "none"

C8_Witness ==
    /\ Did("create_surface")
    /\ lastOp.arg[1] = "Generic"
    /\ lastOp.env.mcOk /\ lastOp.env.alloc # 0
    /\ lastOp.live0 # {}

(* C9 as stated: after destroy_surface fails with a context that does not  *)
(* own the Surface, the caller still holds the Surface value, marked       *)
(* destroyed and with its native handles intact; the Device has not        *)
(* consumed and dropped it.                                                *)
C9_CallerStillHoldsSurface ==
    Mismatch
    => /\ Returned.tag = "surface"
       /\ Returned.surface.destroyed
       /\ lastOp.out.dropped = <<>>

(* C9 amended: the Device consumes the Surface: it is marked destroyed and *)
(* dropped inside the call without a panic, the caller holds nothing       *)
(* afterwards, Err(IncompatibleSurface) is reported, and the native        *)
(* objects of the Surface stay as alive as they were, owned by no value.   *)
C9_SurfaceConsumedAndLeaked ==
    Mismatch
    => /\ lastOp.out.result = "IncompatibleSurface"
       /\ Returned = Empty
       /\ lastOp.out.dropped = <<mark_destroyed(lastOp.pre.surface)>>
       /\ lastOp.out.dropped[1].objects = lastOp.pre.surface.objects
       /\ fault = "none"
       /\ SurfaceObjs(lastOp.pre.surface) \cap lastOp.live0 \subseteq live

C9_Witness ==
    /\ Mismatch
    /\ lastOp.pre.surface.objects.variant = "Window"
    /\ SurfaceObjs(lastOp.pre.surface) \subseteq live
    /\ Returned = Empty

(* C10: a destroy_surface that succeeds on an off-screen Surface makes its *)
(* teardown calls once each in this order: bind the default framebuffer,   *)
(* delete the framebuffer, destroy the Renderbuffer Set, delete the        *)
(* texture, destroy the image, release the hardware buffer; each handle    *)
(* field is nulled right after its release and before destroyed is set.    *)
(* On a window-backed Surface the only teardown call destroys the          *)
(* window-surface handle, which is then nulled.                            *)
C10_TeardownOrder ==
    (Did("destroy_surface") /\ lastOp.out.result = "Ok")
    => LET o == lastOp.pre.surface.objects
           e == lastOp.out.events
           d == lastOp.out.dropped[1]
       IN  IF o.variant = "HardwareBuffer"
           THEN /\ EventNames(e) =
                     <<"BindFramebuffer", "DeleteFramebuffers",
                       "framebuffer_object:=", "Renderbuffers::destroy",
                       "DeleteTextures", "texture_object:=",
                       "DestroyImageKHR", "egl_image:=",
                       "AHardwareBuffer_release", "hardware_buffer:=",
                       "destroyed:=">>
                /\ e[2][2] = o.framebuffer_object
                /\ e[4][2] = o.renderbuffers
                /\ e[5][2] = o.texture_object
                /\ e[7][2] = o.egl_image
                /\ e[9][2] = o.hardware_buffer
                /\ d.objects = HardwareBufferObjects(NullPtr, EGL_NO_IMAGE_KHR,
                                                     0, 0, 0)
                /\ d.destroyed
           ELSE /\ EventNames(e) = <<"DestroySurface", "egl_surface:=",
                                     "destroyed:=">>
                /\ e[1][2] = o.egl_surface
                /\ d.objects = WindowObjects(NO_SURFACE)
                /\ d.destroyed

C10_Witness ==
    /\ Did("destroy_surface")
    /\ lastOp.out.result = "Ok"
    /\ lastOp.pre.surface.objects.variant = "HardwareBuffer"
    /\ lastOp.cur0 = lastOp.ctx
    /\ SurfaceObjs(lastOp.pre.surface) \cap live = {}

----------------------------------------------------------------------------
\* An event named a comes before an event named b.
Precedes(events, a, b) ==
    \E i, j \in DOMAIN events :
        i < j /\ events[i][1] = a /\ events[j][1] = b

\* destroy_surface ran its teardown on an off-screen Surface it owns.
OwnedTeardown ==
    /\ Did("destroy_surface")
    /\ lastOp.ctx = lastOp.pre.surface.context_id
    /\ lastOp.pre.surface.objects.variant = "HardwareBuffer"

(* C11 as stated: in every destroy_surface of an off-screen Surface the    *)
(* Renderbuffer Set is destroyed before the framebuffer is deleted and     *)
(* before the texture is deleted.                                          *)
C11_RenderbuffersBeforeFramebuffer ==
    OwnedTeardown
    => /\ Precedes(lastOp.out.events, "Renderbuffers::destroy", "DeleteFramebuffers")
       /\ Precedes(lastOp.out.events, "Renderbuffers::destroy", "DeleteTextures")

(* C11 amended: the Renderbuffer Set is destroyed after the framebuffer    *)
(* has been deleted and its handle zeroed, and strictly before the texture *)
(* is deleted and its handle zeroed.                                       *)
C11_RenderbuffersBetween ==
    OwnedTeardown
    => LET e == lastOp.out.events
       IN  /\ Precedes(e, "DeleteFramebuffers", "framebuffer_object:=")
           /\ Precedes(e, "framebuffer_object:=", "Renderbuffers::destroy")
           /\ Precedes(e, "Renderbuffers::destroy", "DeleteTextures")
           /\ Precedes(e, "DeleteTextures", "texture_object:=")
           /\ ~Precedes(e, "Renderbuffers::destroy", "DeleteFramebuffers")
           /\ ~Precedes(e, "DeleteTextures", "Renderbuffers::destroy")

C11_Witness ==
    /\ OwnedTeardown
    /\ lastOp.out.result = "Ok"
    /\ Obj("renderbuffer", lastOp.ctx, lastOp.pre.surface.objects.renderbuffers)
           \in lastOp.live0 \ live

(* C12: every Device call that changes native resources issues its GL and  *)
(* image calls with its context current, made current by the Device; in    *)
(* particular the framebuffer, renderbuffer, texture and image teardown    *)
(* calls of destroy_surface run with the owning context current, whatever  *)
(* was current when destroy_surface was called.                            *)
ContextCalls ==
    {"CreateImageKHR", "bind_egl_image_to_gl_texture",
     "create_and_bind_framebuffer", "Renderbuffers::new", "BindFramebuffer",
     "DeleteFramebuffers", "Renderbuffers::destroy", "DeleteTextures",
     "DestroyImageKHR"}

C12_CallsRunInOwnContext ==
    \A i \in DOMAIN lastOp.out.events :
        lastOp.out.events[i][1] \in ContextCalls
        => lastOp.out.events[i][3] = lastOp.ctx

\* The calls that acquire the context through the scoped guard.
Guarded ==
    \/ Did("create_surface") /\ lastOp.arg[1] = "Generic"
    \/ Did("create_surface_texture")
    \/ Did("destroy_surface_texture")

(* C13: after create_surface(Generic), create_surface_texture and          *)
(* destroy_surface_texture, on every exit path (success, creation failure, *)
(* failure to acquire the context), the context current on the thread is   *)
(* the one that was current before the call.                               *)
C13_CurrentContextRestored ==
    Guarded => /\ current = lastOp.cur0
               /\ lastOp.out.current = lastOp.cur0

C13_Witness ==
    /\ Did("destroy_surface_texture")
    /\ lastOp.env.mcOk
    /\ lastOp.cur0 \notin {NoCtx, lastOp.ctx}
    /\ \E i \in DOMAIN lastOp.out.events : lastOp.out.events[i][3] = lastOp.ctx
    /\ current = lastOp.cur0

(* C14: destroy_surface_texture never returns an error, and when the       *)
(* supplied context cannot be made current it still deletes the            *)
(* SurfaceTexture's own texture, destroys its own image, zeroes both       *)
(* fields and returns Ok with the embedded Surface.                        *)
C14_BestEffortStillReleases ==
    Did("destroy_surface_texture")
    => /\ lastOp.out.result \in {"Ok", "panic"}
       /\ ~lastOp.env.mcOk
          => LET t == lastOp.pre.texture
                 e == EventNames(lastOp.out.events)
             IN  /\ lastOp.out.result = "Ok"
                 /\ Returned = HoldSurface(t.surface)
                 /\ \E i, j \in DOMAIN e : /\ e[i] = "texture_object:="
                                           /\ e[j] = "local_egl_image:="
                 /\ Obj("egl_image", Display, t.local_egl_image) \notin live
                 /\ Obj("texture", lastOp.pre.made_in, t.texture_object) \notin live

(* C15: every SurfaceTexture the caller holds embeds a HardwareBuffer      *)
(* Surface that is not destroyed and whose native objects are all alive;   *)
(* a successful create_surface_texture makes exactly one new image and one *)
(* new texture, no new hardware buffer, and embeds the Surface it was      *)
(* given unchanged.                                                        *)
C15_TextureEmbedsLiveSurface ==
    /\ \A k \in Slots :
          slots[k].tag = "texture"
          => LET s == slots[k].texture.surface
             IN  /\ s.objects.variant = "HardwareBuffer"
                 /\ ~s.destroyed
                 /\ SurfaceObjs(s) \subseteq live
    /\ (Did("create_surface_texture") /\ lastOp.out.result = "Ok")
       => LET new == live \ lastOp.live0
          IN  /\ Returned.tag = "texture"
              /\ Returned.texture.surface = lastOp.pre.surface
              /\ new = TextureObjs(Returned.texture, Returned.made_in)
              /\ Cardinality(new) = 2
              /\ lastOp.live0 \subseteq live

\* No two values the caller holds carry Surfaces with the same id.
C16_IdsDistinct ==
    \A j, k \in Slots :
        (j # k /\ slots[j] # Empty /\ slots[k] # Empty)
        => id(Held(slots[j])) # id(Held(slots[k]))

\* A value that stays with the caller carries a Surface with the same id.
C16_IdKept ==
    \A k \in Slots :
        (slots[k] # Empty /\ slots'[k] # Empty)
        => id(Held(slots'[k])) = id(Held(slots[k]))

C17_FailedAcquireKeepsSurface ==
    ( /\ Did("create_surface_texture")
      /\ lastOp.pre.surface.objects.variant = "HardwareBuffer"
      /\ lastOp.out.result = "MakeCurrentFailed" )
    => /\ fault = "none"
       /\ \A i \in DOMAIN lastOp.out.dropped : lastOp.out.dropped[i].destroyed
       /\ \/ SurfaceObjs(lastOp.pre.surface) \cap live = {}
          \/ \E k \in Slots : /\ slots[k] # Empty
                              /\ Held(slots[k]) = lastOp.pre.surface

\* The native objects named by the handles of a value the caller holds.
ValueObjs(v) ==
    IF v.tag = "surface" THEN SurfaceObjs(v.surface)
    ELSE IF v.tag = "texture"
    THEN SurfaceObjs(v.texture.surface) \cup TextureObjs(v.texture, v.made_in)
    ELSE {}

(* C18: no native handle is released twice or used after its release:     *)
(* whenever a Surface or SurfaceTexture is handed to present_surface,      *)
(* create_surface_texture, destroy_surface_texture or destroy_surface,     *)
(* every handle it carries still names a live native object, none having   *)
(* been released by an earlier call.                                       *)
C18_NoUseAfterRelease ==
    lastOp.op \in {"present_surface", "create_surface_texture",
                   "destroy_surface_texture", "destroy_surface"}
    => ValueObjs(lastOp.pre) \subseteq lastOp.live0

\* The live native objects no value of the caller owns.
Unowned ==
    live \ UNION {ValueObjs(slots[k]) : k \in Slots}

\* The objects the documented leak path of destroy_surface lets go.
DocumentedLeak ==
    IF Mismatch THEN SurfaceObjs(lastOp.pre.surface) ELSE {}

(* C19: as long as no fault is raised, every live native object is owned   *)
(* by exactly one value the caller holds, unless it belongs to a Surface   *)
(* whose destroy_surface returned IncompatibleSurface: no other step makes *)
(* a live object unowned, and no live object has two owners.               *)
C19_OwnershipConserved ==
    [][fault' = "none"
       => /\ Unowned' \subseteq Unowned \cup DocumentedLeak'
          /\ \A j, k \in Slots :
                j # k => ValueObjs(slots'[j]) \cap ValueObjs(slots'[k]) \cap live' = {}
      ]_vars

====
